---- MODULE Spec2Model ----
(***************************************************************************)
(* AVLTree<T, KeyType> of avltree.hpp as a state machine.                  *)
(*                                                                         *)
(* The heap is the function `nodes` from node addresses to Node objects;   *)
(* the tree object is (root, minimal, size).  Every member function of the *)
(* class is an operator that takes the tree object (a record holding the   *)
(* heap and the three fields) and returns it as the function leaves it.    *)
(* Node addresses are not observable by a caller, so after each public     *)
(* operation the heap is renumbered (Canon) in pre-order from the root.    *)
(***************************************************************************)
EXTENDS Integers, Sequences, FiniteSets, TLC

\* ------------------------------------------------------------------ bounds
\* KeyType is int; the keys in use are 1..MaxKey.
MaxKey == 5

\* K of the HashMap is int; MaxMapKeys keys are in use (see MapKeys).
MaxMapKeys == 8

\* hashFunction is tried on the keys -MaxHashKey..MaxHashKey.
MaxHashKey == 45

\* A scenario makes at most MaxCalls calls.
MaxCalls == 3

\* Before a run of Deletes, bulk rebuilds build the keys 1..n for every n up
\* to MaxBuilt; every key may be deleted from a tree of that size, and at
\* most MaxDeepDeletes keys from the tree of DeepBuilt keys (see there).
MaxBuilt == 8

MaxDeepDeletes == 5

Keys == 1..MaxKey

\* T is a template parameter that the code copies and never inspects: two
\* distinct payloads are enough to tell any two stored values apart.
Values == {1, 2}

\* ------------------------------------------------------------ constants
NULL == 0
HEIGHT_ZERO == 0
UNBALANCED_FACTOR_SON_ZERO == 0
UNBALANCED_FACTOR_SON == 1
UNBALANCED_FACTOR_SON_NEGATIVE == -1
UNBALANCED_FACTOR == 2
UNBALANCED_FACTOR_NEGATIVE == -2
INITIAL_SIZE == 0
UNBALANCED_TREE == 2
POWER_TWO == 2

\* The key and the data of a default-constructed Node (never read before
\* fillTreeInOrder stamps them).
Blank == 0
\* The image of an address that is no longer allocated.
Dangling == -1

\* nodes, root, minimal, size: the heap and the fields of the tree object.
\* signal: the exception the last call threw ("none": it returned).
\* last: the last call, as the caller made it (see Call).
\* ref: a reference key-to-value map run side by side with the tree.
VARIABLES nodes, root, minimal, size, signal, last, ref

\* entries, _size, _count: the fields of a HashMap object.
\* cells: the free store of the map's payloads (see Map).
\* news, deletes: the payloads the last call allocated and deleted.
VARIABLES entries, _size, _count, cells, news, deletes

\* handle: the iterator a caller holds on the tree (see iterator).
VARIABLES handle

\* journal: the Insert calls a scenario has made on the tree, in order, each
\* with the key it was given and the rotations it made.
VARIABLES journal

treevars == <<nodes, root, minimal, size>>

mapvars == <<entries, _size, _count, cells, news, deletes>>

vars == <<nodes, root, minimal, size, signal, last, ref,
          entries, _size, _count, cells, news, deletes, handle, journal>>

Max(a, b) == IF a < b THEN b ELSE a
Abs(a) == IF a < 0 THEN -a ELSE a

RECURSIVE pow(_, _)
pow(base, exp) == IF exp = 0 THEN 1 ELSE base * pow(base, exp - 1)

\* ------------------------------------------------------------------ Node
NodeDefault ==
    [key |-> Blank, data |-> Blank, left |-> NULL, right |-> NULL,
     parent |-> NULL, left_height |-> HEIGHT_ZERO, right_height |-> HEIGHT_ZERO]

Node(k, d) ==
    [key |-> k, data |-> d, left |-> NULL, right |-> NULL,
     parent |-> NULL, left_height |-> HEIGHT_ZERO, right_height |-> HEIGHT_ZERO]

\* new: the lowest free address.
Alloc(h) == CHOOSE n \in 1..(Cardinality(DOMAIN h) + 1) : n \notin DOMAIN h

New(h, n, obj) == [m \in DOMAIN h \cup {n} |-> IF m = n THEN obj ELSE h[m]]

\* delete
Free(h, n) == [m \in DOMAIN h \ {n} |-> h[m]]

isLeaf(h, n) == h[n].left = NULL /\ h[n].right = NULL

isFull(h, n) == h[n].left # NULL /\ h[n].right # NULL

getBalance(h, n) == h[n].left_height - h[n].right_height

getHeight(h, n) == Max(h[n].left_height, h[n].right_height) + 1

updateLeftHeight(h, n) ==
    [h EXCEPT ![n].left_height =
        IF h[n].left = NULL THEN 0 ELSE getHeight(h, h[n].left)]

updateRightHeight(h, n) ==
    [h EXCEPT ![n].right_height =
        IF h[n].right = NULL THEN 0 ELSE getHeight(h, h[n].right)]

setLeft(h, n, son) == updateLeftHeight([h EXCEPT ![n].left = son], n)

setRight(h, n, son) == updateRightHeight([h EXCEPT ![n].right = son], n)

setParent(h, n, p) == [h EXCEPT ![n].parent = p]

disconnectFromParent(h, n) ==
    LET p == h[n].parent
        h1 == IF p # NULL
              THEN IF h[p].left = n THEN setLeft(h, p, NULL)
                                    ELSE setRight(h, p, NULL)
              ELSE h
    IN  setParent(h1, n, NULL)

isLeftRight(h, n) == h[h[n].parent].right = n

attachParentAndSon(h, n) ==
    LET p == h[n].parent
        r == h[n].right
        l == h[n].left
        h1 == IF p # NULL
              THEN IF r # NULL
                   THEN LET a == IF isLeftRight(h, n) THEN setRight(h, p, r)
                                                      ELSE setLeft(h, p, r)
                        IN  setParent(a, r, p)
                   ELSE LET a == IF isLeftRight(h, n) THEN setRight(h, p, l)
                                                      ELSE setLeft(h, p, l)
                        IN  IF l # NULL THEN setParent(a, l, p) ELSE a
              ELSE IF r # NULL THEN setParent(h, r, NULL)
                   ELSE IF l # NULL THEN setParent(h, l, NULL)
                   ELSE h
    IN  setParent(h1, n, NULL)

\* swap with the data left in place (keys only): a faulty variant that
\* C5_FindRefinesMap must reject.
swap_KeysOnly(h, n, m) ==
    [h EXCEPT ![n].key = h[m].key, ![m].key = h[n].key]

swap(h, n, m) ==
    [h EXCEPT ![n].data = h[m].data, ![n].key = h[m].key,
              ![m].data = h[n].data, ![m].key = h[n].key]

\* --------------------------------------------------------------- AVLTree
\* A tree object together with the heap it lives in.  rotations is a record
\* kept beside the object: the outcome of every rebalancing that the call
\* under way made at a node whose cached balance had magnitude 2 (see rotate).
Tree(h, rt, mn, sz) ==
    [nodes |-> h, root |-> rt, minimal |-> mn, size |-> sz, rotations |-> <<>>]

RECURSIVE recursiveFind(_, _, _)
recursiveFind(h, current, k) ==
    IF current = NULL THEN NULL
    ELSE IF h[current].key > k THEN recursiveFind(h, h[current].left, k)
    ELSE IF h[current].key < k THEN recursiveFind(h, h[current].right, k)
    ELSE current

rotateLL(t, B) ==
    LET h0 == t.nodes
        B_Parent == h0[B].parent
        A == h0[B].left
        A_right == h0[A].right
        h1 == setLeft(h0, B, A_right)
        h2 == IF A_right # NULL THEN setParent(h1, A_right, B) ELSE h1
        h3 == setRight(h2, A, B)
        h4 == setParent(h3, B, A)
        h5 == setParent(h4, A, B_Parent)
        h6 == IF B_Parent # NULL
              THEN IF h5[B_Parent].left = B THEN setLeft(h5, B_Parent, A)
                                            ELSE setRight(h5, B_Parent, A)
              ELSE h5
    IN  [t EXCEPT !.nodes = h6, !.root = IF t.root = B THEN A ELSE t.root]

\* rotateRR with B->setParent(A_parent) left out: a faulty variant that
\* C23_LinksConsistent must reject.
rotateRR_ParentKept(t, A) ==
    LET h0 == t.nodes
        A_parent == h0[A].parent
        B == h0[A].right
        B_left == h0[B].left
        h1 == setRight(h0, A, B_left)
        h2 == setLeft(h1, B, A)
        h3 == IF B_left # NULL THEN setParent(h2, B_left, A) ELSE h2
        h4 == setParent(h3, A, B)
        h6 == IF A_parent # NULL
              THEN IF h4[A_parent].left = A THEN setLeft(h4, A_parent, B)
                                            ELSE setRight(h4, A_parent, B)
              ELSE h4
    IN  [t EXCEPT !.nodes = h6, !.root = IF t.root = A THEN B ELSE t.root]

rotateRR(t, A) ==
    LET h0 == t.nodes
        A_parent == h0[A].parent
        B == h0[A].right
        B_left == h0[B].left
        h1 == setRight(h0, A, B_left)
        h2 == setLeft(h1, B, A)
        h3 == IF B_left # NULL THEN setParent(h2, B_left, A) ELSE h2
        h4 == setParent(h3, A, B)
        h5 == setParent(h4, B, A_parent)
        h6 == IF A_parent # NULL
              THEN IF h5[A_parent].left = A THEN setLeft(h5, A_parent, B)
                                            ELSE setRight(h5, A_parent, B)
              ELSE h5
    IN  [t EXCEPT !.nodes = h6, !.root = IF t.root = A THEN B ELSE t.root]

\* rotateLR without the rotation of the left son: a faulty variant that
\* C21_ThreeKeyRotations must reject.
rotateLR_SingleOnly(t, C) == rotateLL(t, C)

rotateLR(t, C) == rotateLL(rotateRR(t, t.nodes[C].left), C)

rotateRL(t, C) == rotateRR(rotateLL(t, t.nodes[C].right), C)

\* rotate with the single rotations made only for a son whose balance is
\* +1 or -1 (not 0, the case that only a Delete produces): a faulty variant
\* that C26_DeletesKeepSound must reject.
rotate_NoZeroSon(t, n) ==
    LET h == t.nodes IN
    IF getBalance(h, n) = UNBALANCED_FACTOR
    THEN IF getBalance(h, h[n].left) = UNBALANCED_FACTOR_SON
         THEN rotateLL(t, n)
         ELSE IF getBalance(h, h[n].left) = UNBALANCED_FACTOR_SON_NEGATIVE
         THEN rotateLR(t, n)
         ELSE t
    ELSE IF getBalance(h, n) = UNBALANCED_FACTOR_NEGATIVE
    THEN IF getBalance(h, h[n].right) = UNBALANCED_FACTOR_SON
         THEN rotateRL(t, n)
         ELSE IF getBalance(h, h[n].right) = UNBALANCED_FACTOR_SON_NEGATIVE
         THEN rotateRR(t, n)
         ELSE t
    ELSE t

\* The tree t with one more outcome of rotate on its record: the rotation
\* made, or "none" when neither test on the son's balance passed.
Rotated(t, kind) == [t EXCEPT !.rotations = Append(@, kind)]

rotate(t, n) ==
    LET h == t.nodes IN
    IF getBalance(h, n) = UNBALANCED_FACTOR
    THEN IF getBalance(h, h[n].left) >= UNBALANCED_FACTOR_SON_ZERO
         THEN Rotated(rotateLL(t, n), "LL")
         ELSE IF getBalance(h, h[n].left) = UNBALANCED_FACTOR_SON_NEGATIVE
         THEN Rotated(rotateLR(t, n), "LR")
         ELSE Rotated(t, "none")
    ELSE IF getBalance(h, n) = UNBALANCED_FACTOR_NEGATIVE
    THEN IF getBalance(h, h[n].right) = UNBALANCED_FACTOR_SON
         THEN Rotated(rotateRL(t, n), "RL")
         ELSE IF getBalance(h, h[n].right) <= UNBALANCED_FACTOR_SON_ZERO
         THEN Rotated(rotateRR(t, n), "RR")
         ELSE Rotated(t, "none")
    ELSE t

RECURSIVE recursiveInsert(_, _, _)

\* The branch of recursiveInsert for a node with both children, up to the
\* return from the recursive call and the height update that follows it
\* (before rotate(current)).
recursiveInsertFull(t, current, to_insert) ==
    LET h == t.nodes IN
    IF h[current].key < h[to_insert].key
    THEN LET r == recursiveInsert(t, h[current].right, to_insert)
         IN  [r EXCEPT !.nodes = updateRightHeight(r.nodes, current)]
    ELSE LET r == recursiveInsert(t, h[current].left, to_insert)
         IN  [r EXCEPT !.nodes = updateRightHeight(r.nodes, current)]

recursiveInsert(t, current, to_insert) ==
    LET h == t.nodes
        t1 ==
          IF isLeaf(h, current)
          THEN LET a == IF h[current].key < h[to_insert].key
                        THEN setRight(h, current, to_insert)
                        ELSE setLeft(h, current, to_insert)
               IN  [t EXCEPT !.nodes = setParent(a, to_insert, current)]
          ELSE IF isFull(h, current)
          THEN recursiveInsertFull(t, current, to_insert)
          ELSE IF h[current].left # NULL
          THEN IF h[current].key < h[to_insert].key
               THEN LET a == setRight(h, current, to_insert)
                    IN  [t EXCEPT !.nodes = setParent(a, to_insert, current)]
               ELSE LET r == recursiveInsert(t, h[current].left, to_insert)
                    IN  [r EXCEPT !.nodes = updateLeftHeight(r.nodes, current)]
          ELSE IF h[to_insert].key < h[current].key
               THEN LET a == setLeft(h, current, to_insert)
                    IN  [t EXCEPT !.nodes = setParent(a, to_insert, current)]
               ELSE LET r == recursiveInsert(t, h[current].right, to_insert)
                    IN  [r EXCEPT !.nodes = updateRightHeight(r.nodes, current)]
    IN  rotate(t1, current)

\* The while loop of recursiveDelete: the leftmost node below n.
RECURSIVE LeftmostFrom(_, _)
LeftmostFrom(h, n) == IF h[n].left # NULL THEN LeftmostFrom(h, h[n].left) ELSE n

RECURSIVE recursiveDelete(_, _, _)
recursiveDelete(t, current, k) ==
    LET h == t.nodes IN
    IF h[current].key = k
    THEN IF isLeaf(h, current)
         THEN LET h1 == disconnectFromParent(h, current)
              IN  [t EXCEPT !.nodes = Free(h1, current),
                            !.root = IF current = t.root THEN NULL ELSE t.root]
         ELSE IF isFull(h, current)
         THEN LET current_right == LeftmostFrom(h, h[current].right)
                  h1 == swap(h, current, current_right)
                  r == recursiveDelete([t EXCEPT !.nodes = h1], h1[current].right, k)
                  r1 == IF r.nodes[current].right # NULL
                        THEN [r EXCEPT !.nodes = updateRightHeight(r.nodes, current)]
                        ELSE r
              IN  rotate(r1, current)
         ELSE LET h1 == attachParentAndSon(h, current)
                  rt == IF current = t.root
                        THEN IF h1[current].left # NULL THEN h1[current].left
                                                        ELSE h1[current].right
                        ELSE t.root
              IN  [t EXCEPT !.nodes = Free(h1, current), !.root = rt]
    ELSE IF k > h[current].key
         THEN LET r == recursiveDelete(t, h[current].right, k)
                  r1 == IF r.nodes[current].right # NULL
                        THEN [r EXCEPT !.nodes = updateRightHeight(r.nodes, current)]
                        ELSE r
              IN  rotate(r1, current)
         ELSE LET r == recursiveDelete(t, h[current].left, k)
                  r1 == IF r.nodes[current].left # NULL
                        THEN [r EXCEPT !.nodes = updateLeftHeight(r.nodes, current)]
                        ELSE r
              IN  rotate(r1, current)

RECURSIVE getMaxBalanceFactorAux(_, _)
getMaxBalanceFactorAux(h, current) ==
    IF current = NULL THEN 0
    ELSE Max(Abs(getBalance(h, current)),
             Max(getMaxBalanceFactorAux(h, h[current].right),
                 getMaxBalanceFactorAux(h, h[current].left)))

RECURSIVE recursiveDestruct(_, _)
recursiveDestruct(t, current) ==
    IF current = NULL THEN t
    ELSE LET lt == t.nodes[current].left
             rt == t.nodes[current].right
             t1 == recursiveDestruct(t, lt)
             t2 == recursiveDestruct(t1, rt)
         IN  [t2 EXCEPT !.nodes = Free(t2.nodes, current), !.size = t2.size - 1]

RECURSIVE updateMinimal(_, _)
\* updateMinimal without the descent to the left: a faulty variant that
\* C4_MinimalIsLeftmost must reject.
updateMinimal_NoDescent(t, current) == [t EXCEPT !.minimal = current]

updateMinimal(t, current) ==
    IF current = NULL THEN [t EXCEPT !.minimal = NULL]
    ELSE IF t.nodes[current].left # NULL
    THEN updateMinimal(t, t.nodes[current].left)
    ELSE [t EXCEPT !.minimal = current]

\* The keys inorderOutputAux writes, in the order it writes them.
RECURSIVE inorderOutputAux(_, _)
inorderOutputAux(h, current) ==
    IF current = NULL THEN <<>>
    ELSE inorderOutputAux(h, h[current].left) \o <<h[current].key>>
         \o inorderOutputAux(h, h[current].right)

\* The data extractTreeDataInOrderAux stores into out[], in index order.
RECURSIVE extractTreeDataInOrderAux(_, _)
extractTreeDataInOrderAux(h, node) ==
    IF node = NULL THEN <<>>
    ELSE extractTreeDataInOrderAux(h, h[node].left) \o <<h[node].data>>
         \o extractTreeDataInOrderAux(h, h[node].right)

\* ------------------------------------------------------ public interface
\* An operation's outcome: the tree it leaves and the exception it throws
\* ("none" when it returns normally).
Outcome(t, sig) == [t |-> t, signal |-> sig]

AVLTree == Tree(<<>>, NULL, NULL, INITIAL_SIZE)

getSize(t) == t.size

Empty(t) == t.root = NULL \/ getSize(t) = 0

\* The iterator Find returns is its node (current) in this tree.
Find(t, k) ==
    LET searched_node == recursiveFind(t.nodes, t.root, k)
    IN  IF searched_node = NULL
        THEN [signal |-> "KeyNotFound", current |-> NULL]
        ELSE [signal |-> "none", current |-> searched_node]

\* iterator::operator*
Deref(t, it) ==
    IF it = NULL THEN [signal |-> "IteratorReachedEnd", data |-> Blank]
    ELSE [signal |-> "none", data |-> t.nodes[it].data]

\* The address of the tree object (the this of its member functions).
this == 1

\* An iterator: its node and its tree (NULL: the caller holds no iterator).
iterator(node, tree) == [current |-> node, tree |-> tree]

NoIterator == iterator(NULL, NULL)

\* A move's outcome: the iterator as the move leaves it and the exception it
\* throws.
Moved(i, sig) == [it |-> i, signal |-> sig]

MoveLeft(h, i) ==
    IF i.current = NULL THEN Moved(i, "IteratorReachedEnd")
    ELSE Moved([i EXCEPT !.current = h[i.current].left], "none")

MoveRight(h, i) ==
    IF i.current = NULL THEN Moved(i, "IteratorReachedEnd")
    ELSE Moved([i EXCEPT !.current = h[i.current].right], "none")

moveToParent(h, i) ==
    IF i.current = NULL THEN Moved(i, "IteratorReachedEnd")
    ELSE LET parent == h[i.current].parent
         IN  IF parent = NULL THEN Moved(i, "IteratorReachedRoot")
             ELSE Moved([i EXCEPT !.current = parent], "none")

\* Insert that stores the new data before it rejects a duplicate key: a
\* faulty variant that C6_DuplicateInsertRejected must reject.
Insert_Overwrites(t, k, d) ==
    IF Empty(t)
    THEN LET n == Alloc(t.nodes)
             t1 == [t EXCEPT !.nodes = New(t.nodes, n, Node(k, d)),
                             !.root = n, !.size = t.size + 1]
         IN  Outcome(updateMinimal(t1, t1.root), "none")
    ELSE IF Find(t, k).signal = "KeyNotFound"
    THEN LET n == Alloc(t.nodes)
             t1 == [t EXCEPT !.nodes = New(t.nodes, n, Node(k, d))]
             t2 == recursiveInsert(t1, t1.root, n)
             t3 == [t2 EXCEPT !.size = t2.size + 1]
         IN  Outcome(updateMinimal(t3, t3.root), "none")
    ELSE Outcome([t EXCEPT !.nodes[Find(t, k).current].data = d],
                 "KeyAlreadyExists")

Insert(t, k, d) ==
    IF Empty(t)
    THEN LET n == Alloc(t.nodes)
             t1 == [t EXCEPT !.nodes = New(t.nodes, n, Node(k, d)),
                             !.root = n, !.size = t.size + 1]
         IN  Outcome(updateMinimal(t1, t1.root), "none")
    ELSE IF Find(t, k).signal = "KeyNotFound"
    THEN LET n == Alloc(t.nodes)
             t1 == [t EXCEPT !.nodes = New(t.nodes, n, Node(k, d))]
             t2 == recursiveInsert(t1, t1.root, n)
             t3 == [t2 EXCEPT !.size = t2.size + 1]
         IN  Outcome(updateMinimal(t3, t3.root), "none")
    ELSE Outcome(t, "KeyAlreadyExists")

\* Delete with size-- left out: a faulty variant that C1_OrderedAndCounted
\* must reject.
Delete_KeepsSize(t, k) ==
    IF Find(t, k).signal = "KeyNotFound"
    THEN Outcome(t, "KeyNotFound")
    ELSE LET t1 == recursiveDelete(t, t.root, k)
         IN  Outcome(updateMinimal(t1, t1.root), "none")

\* Delete with size-- moved before Find: a faulty variant that
\* C7_AbsentDeleteRejected must reject.
Delete_DecrementsFirst(t, k) ==
    LET t0 == [t EXCEPT !.size = t.size - 1] IN
    IF Find(t0, k).signal = "KeyNotFound"
    THEN Outcome(t0, "KeyNotFound")
    ELSE LET t1 == recursiveDelete(t0, t0.root, k)
             t3 == IF t1.size = 0 THEN [t1 EXCEPT !.root = NULL] ELSE t1
         IN  Outcome(updateMinimal(t3, t3.root), "none")

Delete(t, k) ==
    IF Find(t, k).signal = "KeyNotFound"
    THEN Outcome(t, "KeyNotFound")
    ELSE LET t1 == recursiveDelete(t, t.root, k)
             t2 == [t1 EXCEPT !.size = t1.size - 1]
             t3 == IF t2.size = 0 THEN [t2 EXCEPT !.root = NULL] ELSE t2
         IN  Outcome(updateMinimal(t3, t3.root), "none")

isBalanced(t) == getMaxBalanceFactorAux(t.nodes, t.root) < UNBALANCED_TREE

getMinimal(t) ==
    IF t.minimal = NULL
    THEN [signal |-> "KeyNotFound", current |-> NULL]
    ELSE [signal |-> "none", current |-> t.minimal]

\* ----------------------------------------------------------- bulk rebuild
\* A caller's buffer: a null pointer, or an array (at[i + 1] is element i).
Buffer(isnull, elems) == [null |-> isnull, at |-> elems]

RECURSIVE HeightLoop(_, _)
HeightLoop(count, height) ==
    IF pow(POWER_TWO, height) - 1 < count THEN HeightLoop(count, height + 1)
    ELSE height

\* Called with count > 0 only (generateInOrder returns before it otherwise).
getTreeHeightByNodesCount(count) == HeightLoop(count, 0)

RECURSIVE createBlankTree(_, _)
createBlankTree(t, height) ==
    IF height = 0 THEN [t |-> t, node |-> NULL]
    ELSE LET rt == Alloc(t.nodes)
             t0 == [t EXCEPT !.nodes = New(t.nodes, rt, NodeDefault)]
             lt == createBlankTree(t0, height - 1)
             rg == createBlankTree(lt.t, height - 1)
             h1 == setLeft(rg.t.nodes, rt, lt.node)
             h2 == IF lt.node # NULL THEN setParent(h1, lt.node, rt) ELSE h1
             h3 == setRight(h2, rt, rg.node)
             h4 == IF rg.node # NULL THEN setParent(h3, rg.node, rt) ELSE h3
         IN  [t |-> [rg.t EXCEPT !.nodes = h4, !.size = rg.t.size + 1],
              node |-> rt]

RECURSIVE fillTreeInOrder(_, _, _, _, _)
fillTreeInOrder(t, node, ordered_data, ordered_keys, index) ==
    IF node = NULL THEN [t |-> t, index |-> index, signal |-> "none"]
    ELSE IF ordered_data.null \/ ordered_keys.null
    THEN [t |-> t, index |-> index, signal |-> "InvalidArg"]
    ELSE LET a == fillTreeInOrder(t, t.nodes[node].left, ordered_data,
                                  ordered_keys, index)
             h1 == [a.t.nodes EXCEPT ![node].data = ordered_data.at[a.index + 1],
                                     ![node].key = ordered_keys.at[a.index + 1]]
         IN  fillTreeInOrder([a.t EXCEPT !.nodes = h1], h1[node].right,
                             ordered_data, ordered_keys, a.index + 1)

RECURSIVE trimTreeInOrder(_, _, _, _)

\* trimTreeInOrder without the two height updates that follow the
\* recursion: a faulty variant that C27_TrimKeepsTreeWhole must reject.
trimTreeInOrder_NoHeightUpdate(t, node, current_size, requested_size) ==
    IF current_size = requested_size
    THEN [t |-> t, current_size |-> current_size]
    ELSE IF node = NULL
    THEN [t |-> t, current_size |-> current_size]
    ELSE LET a == trimTreeInOrder(t, t.nodes[node].left, current_size,
                                  requested_size)
         IN  IF isLeaf(a.t.nodes, node)
             THEN [t |-> [a.t EXCEPT
                            !.nodes = Free(disconnectFromParent(a.t.nodes, node), node),
                            !.size = a.t.size - 1],
                   current_size |-> a.current_size - 1]
             ELSE trimTreeInOrder(a.t, a.t.nodes[node].right,
                                  a.current_size, requested_size)

trimTreeInOrder(t, node, current_size, requested_size) ==
    IF current_size = requested_size
    THEN [t |-> t, current_size |-> current_size]
    ELSE IF node = NULL
    THEN [t |-> t, current_size |-> current_size]
    ELSE LET a == trimTreeInOrder(t, t.nodes[node].left, current_size,
                                  requested_size)
         IN  IF isLeaf(a.t.nodes, node)
             THEN [t |-> [a.t EXCEPT
                            !.nodes = Free(disconnectFromParent(a.t.nodes, node), node),
                            !.size = a.t.size - 1],
                   current_size |-> a.current_size - 1]
             ELSE LET b == trimTreeInOrder(a.t, a.t.nodes[node].right,
                                           a.current_size, requested_size)
                  IN  [t |-> [b.t EXCEPT !.nodes =
                                updateRightHeight(updateLeftHeight(b.t.nodes, node), node)],
                       current_size |-> b.current_size]

\* generateInOrder with the null test moved before the count == 0 return: a
\* faulty variant that C10_BadCallThrowsUnlessZero must reject.
generateInOrder_NullTestFirst(t, arr_data, arr_keys, count) ==
    IF count < 0 THEN Outcome(t, "InvalidArg")
    ELSE IF arr_data.null \/ arr_keys.null THEN Outcome(t, "NullArg")
    ELSE IF count = 0 THEN Outcome(t, "none")
    ELSE LET copied_data == Buffer(FALSE, [i \in 1..count |-> arr_data.at[i]])
             t1 == IF t.size # count
                   THEN LET d == recursiveDestruct(t, t.root)
                            requested_height == getTreeHeightByNodesCount(count)
                            current_size == pow(POWER_TWO, requested_height) - 1
                            b == createBlankTree(d, requested_height)
                            t0 == [b.t EXCEPT !.root = b.node]
                        IN  trimTreeInOrder(t0, t0.root, current_size, count).t
                   ELSE t
             f == fillTreeInOrder(t1, t1.root, copied_data, arr_keys, 0)
         IN  Outcome(updateMinimal(f.t, f.t.root), f.signal)

generateInOrder(t, arr_data, arr_keys, count) ==
    IF count < 0 THEN Outcome(t, "InvalidArg")
    ELSE IF count = 0 THEN Outcome(t, "none")
    ELSE IF arr_data.null \/ arr_keys.null THEN Outcome(t, "NullArg")
    ELSE LET copied_data == Buffer(FALSE, [i \in 1..count |-> arr_data.at[i]])
             t1 == IF t.size # count
                   THEN LET d == recursiveDestruct(t, t.root)
                            requested_height == getTreeHeightByNodesCount(count)
                            current_size == pow(POWER_TWO, requested_height) - 1
                            b == createBlankTree(d, requested_height)
                            t0 == [b.t EXCEPT !.root = b.node]
                        IN  trimTreeInOrder(t0, t0.root, current_size, count).t
                   ELSE t
             f == fillTreeInOrder(t1, t1.root, copied_data, arr_keys, 0)
         IN  Outcome(updateMinimal(f.t, f.t.root), f.signal)

\* ------------------------------------------------- address renumbering
RECURSIVE PreOrder(_, _)
PreOrder(h, n) ==
    IF n = NULL THEN <<>>
    ELSE <<n>> \o PreOrder(h, h[n].left) \o PreOrder(h, h[n].right)

RECURSIVE Ascending(_)
Ascending(S) ==
    IF S = {} THEN <<>>
    ELSE LET m == CHOOSE x \in S : \A y \in S : x <= y
         IN  <<m>> \o Ascending(S \ {m})

\* The heap with its nodes renumbered: those reachable from the root in
\* pre-order, then any other allocated node in address order.
Canon(t) ==
    LET pre == PreOrder(t.nodes, t.root)
        order == pre \o Ascending(DOMAIN t.nodes \ {pre[i] : i \in 1..Len(pre)})
        ren(p) == IF p = NULL THEN NULL
                  ELSE IF \E i \in 1..Len(order) : order[i] = p
                  THEN CHOOSE i \in 1..Len(order) : order[i] = p
                  ELSE Dangling
    IN  Tree([i \in 1..Len(order) |->
                [t.nodes[order[i]] EXCEPT !.left = ren(@), !.right = ren(@),
                                          !.parent = ren(@)]],
             ren(t.root), ren(t.minimal), t.size)

\* ---------------------------------------------------------------- HashMap
EMPTY_TABLE == 0
HashMap_INITIAL_SIZE == 10
INCREASE_FACTOR == 2
DECREASE_FACTOR == 2

\* 0.75 and 0.25 as exact ratios.  With a count and a capacity far below
\* 2^51 the double quotient count / capacity compares with either threshold
\* as the exact quotient does.
\* A growth threshold of 0.5: a faulty variant that
\* C13_LoadFactorAfterResize must reject.
THRESHOLD_INCREASE_Half == [num |-> 1, den |-> 2]

THRESHOLD_INCREASE == [num |-> 3, den |-> 4]
\* A shrink threshold of 0.2: a faulty variant that C28_SteadyLoadFactor must
\* reject.
THRESHOLD_DECREASE_Fifth == [num |-> 1, den |-> 5]

THRESHOLD_DECREASE == [num |-> 1, den |-> 4]

\* The % of int operands: the quotient is truncated toward zero, so the
\* remainder has the sign of the dividend.
Rem(a, b) == IF a >= 0 THEN a % b ELSE -((-a) % b)

\* A map object together with the free store its payloads live in: cells
\* maps the address of every V that is allocated and not deleted to its value;
\* news and deletes count the new V and the delete of a V executed so far.
Map(e, s, c, p, n, d) ==
    [entries |-> e, _size |-> s, _count |-> c, cells |-> p,
     news |-> n, deletes |-> d]

MapOutcome(m, sig) == [m |-> m, signal |-> sig]

\* hashFunction returning the raw remainder: a faulty variant that
\* C16_HashInRange must reject.
hashFunction_NoCorrection(m, key) == Rem(key, m._size)

hashFunction(m, key) ==
    LET res == Rem(key, m._size)
    IN  IF 0 <= res THEN res ELSE res + m._size

Contains(m, key) ==
    LET entry_index == hashFunction(m, key)
    IN  Find(m.entries[entry_index], key).signal # "KeyNotFound"

\* The keys of a tree in ascending order (the traversal of
\* extractTreeDataInOrderAux, storing the key instead).
RECURSIVE extractTreeKeysInOrderAux(_, _)
extractTreeKeysInOrderAux(h, node) ==
    IF node = NULL THEN <<>>
    ELSE extractTreeKeysInOrderAux(h, h[node].left) \o <<h[node].key>>
         \o extractTreeKeysInOrderAux(h, h[node].right)

\* tree_data: element j + 1 is what *(tree_data[j]) reads.
inOrderExtractData(t) == extractTreeDataInOrderAux(t.nodes, t.root)

inOrderExtractKeys(t) == extractTreeKeysInOrderAux(t.nodes, t.root)

RECURSIVE ResizeInner(_, _, _, _, _)

\* The rest of one turn of the inner loop, o being what the bucket's Insert
\* returned or threw: an exception leaves the loop at once.
ResizeInnerStored(m, entry_index, o, tree_keys, tree_data, tree_size, j) ==
    IF o.signal # "none"
    THEN MapOutcome([m EXCEPT !.entries[entry_index] = o.t], o.signal)
    ELSE ResizeInner([m EXCEPT !.entries[entry_index] = o.t, !._count = @ + 1],
                     tree_keys, tree_data, tree_size, j + 1)

\* The inner loop with the last element of every bucket left behind (j + 1
\* < tree_size): a faulty variant that C12_ResizeKeepsPairs must reject.
ResizeInner_StopsEarly(m, tree_keys, tree_data, tree_size, j) ==
    IF ~(j + 1 < tree_size) THEN MapOutcome(m, "none")
    ELSE LET temp_key == tree_keys[j + 1]
             temp_obj == tree_data[j + 1]
             entry_index == hashFunction(m, temp_key)
         IN  ResizeInnerStored(m, entry_index,
                               Insert(m.entries[entry_index], temp_key, temp_obj),
                               tree_keys, tree_data, tree_size, j)

\* The inner loop with the index computed for the initial capacity instead
\* of the new one: a faulty variant that C15_OneBucketPerKey must reject.
ResizeInner_StaleHash(m, tree_keys, tree_data, tree_size, j) ==
    IF ~(j < tree_size) THEN MapOutcome(m, "none")
    ELSE LET temp_key == tree_keys[j + 1]
             temp_obj == tree_data[j + 1]
             entry_index == hashFunction([m EXCEPT !._size = HashMap_INITIAL_SIZE],
                                         temp_key)
         IN  ResizeInnerStored(m, entry_index,
                               Insert(m.entries[entry_index], temp_key, temp_obj),
                               tree_keys, tree_data, tree_size, j)

\* The inner loop of Resize from index j on.
ResizeInner(m, tree_keys, tree_data, tree_size, j) ==
    IF ~(j < tree_size) THEN MapOutcome(m, "none")
    ELSE LET temp_key == tree_keys[j + 1]
             temp_obj == tree_data[j + 1]
             entry_index == hashFunction(m, temp_key)
         IN  ResizeInnerStored(m, entry_index,
                               Insert(m.entries[entry_index], temp_key, temp_obj),
                               tree_keys, tree_data, tree_size, j)

RECURSIVE ResizeOuter(_, _, _, _)

\* The rest of one turn of the outer loop, r being how the inner loop ended.
ResizeOuterNext(r, old_entries, old_size, i) ==
    IF r.signal # "none" THEN r
    ELSE ResizeOuter(r.m, old_entries, old_size, i + 1)

\* The outer loop of Resize from bucket i on.
ResizeOuter(m, old_entries, old_size, i) ==
    IF ~(i < old_size) THEN MapOutcome(m, "none")
    ELSE LET tree_size == getSize(old_entries[i])
             tree_data == inOrderExtractData(old_entries[i])
             tree_keys == inOrderExtractKeys(old_entries[i])
         IN  ResizeOuterNext(ResizeInner(m, tree_keys, tree_data, tree_size, 0),
                             old_entries, old_size, i)

\* Resize without the test for the initial size: a faulty variant that
\* C14_CapacityFloor must reject.
Resize_NoFloor(m, increase) ==
    LET old_size == m._size
        new_size == IF increase = TRUE
                    THEN m._size * INCREASE_FACTOR
                    ELSE m._size \div DECREASE_FACTOR
        old_entries == m.entries
        m1 == [m EXCEPT !._size = new_size,
                        !.entries = [i \in 0..(new_size - 1) |-> AVLTree],
                        !._count = 0]
    IN  ResizeOuter(m1, old_entries, old_size, 0)

Resize(m, increase) ==
    IF increase = FALSE /\ m._size = HashMap_INITIAL_SIZE
    THEN MapOutcome(m, "none")
    ELSE LET old_size == m._size
             new_size == IF increase = TRUE
                         THEN m._size * INCREASE_FACTOR
                         ELSE m._size \div DECREASE_FACTOR
             old_entries == m.entries
             m1 == [m EXCEPT !._size = new_size,
                             !.entries = [i \in 0..(new_size - 1) |-> AVLTree],
                             !._count = 0]
         IN  ResizeOuter(m1, old_entries, old_size, 0)

loadFactorCheckAndResize(m) ==
    IF THRESHOLD_INCREASE.num * m._size <= THRESHOLD_INCREASE.den * m._count
    THEN Resize(m, TRUE)
    ELSE IF THRESHOLD_DECREASE.num * m._size >= THRESHOLD_DECREASE.den * m._count
    THEN Resize(m, FALSE)
    ELSE MapOutcome(m, "none")

HashMap ==
    Map([i \in 0..(HashMap_INITIAL_SIZE - 1) |-> AVLTree],
        HashMap_INITIAL_SIZE, EMPTY_TABLE, <<>>, 0, 0)

\* Insert that allocates the payload before it tests for the key: a faulty
\* variant that C17_DuplicateMapInsertRejected must reject.
HashMap_Insert_AllocatesFirst(m, key, obj) ==
    LET to_add == Alloc(m.cells)
        m0 == [m EXCEPT !.cells = New(m.cells, to_add, obj), !.news = @ + 1]
    IN  IF Contains(m0, key)
        THEN MapOutcome(m0, "HashMapKeyAlreadyExists")
        ELSE LET entry_index == hashFunction(m0, key)
                 o == Insert(m0.entries[entry_index], key, to_add)
                 m1 == [m0 EXCEPT !.entries[entry_index] = o.t]
             IN  IF o.signal # "none" THEN MapOutcome(m1, o.signal)
                 ELSE loadFactorCheckAndResize([m1 EXCEPT !._count = @ + 1])

\* Insert with the load-factor check made before _count++: a faulty variant
\* that C22_GrowsOnEighthInsert must reject.
HashMap_InsertStored_ChecksFirst(m, entry_index, to_add, obj, o) ==
    LET m1 == [m EXCEPT !.cells = New(m.cells, to_add, obj),
                        !.news = @ + 1,
                        !.entries[entry_index] = o.t]
        r == loadFactorCheckAndResize(m1)
    IN  IF o.signal # "none" THEN MapOutcome(m1, o.signal)
        ELSE MapOutcome([r.m EXCEPT !._count = @ + 1], r.signal)

\* Insert from the bucket's Insert on, o being what that returned or threw.
HashMap_InsertStored(m, entry_index, to_add, obj, o) ==
    LET m1 == [m EXCEPT !.cells = New(m.cells, to_add, obj),
                        !.news = @ + 1,
                        !.entries[entry_index] = o.t]
    IN  IF o.signal # "none" THEN MapOutcome(m1, o.signal)
        ELSE loadFactorCheckAndResize([m1 EXCEPT !._count = @ + 1])

HashMap_Insert(m, key, obj) ==
    IF Contains(m, key)
    THEN MapOutcome(m, "HashMapKeyAlreadyExists")
    ELSE LET entry_index == hashFunction(m, key)
             to_add == Alloc(m.cells)
         IN  HashMap_InsertStored(m, entry_index, to_add, obj,
                                  Insert(m.entries[entry_index], key, to_add))

\* Delete with _count-- left out: a faulty variant that
\* C11_MapRefinesReference must reject.
HashMap_Delete_KeepsCount(m, key) ==
    IF ~Contains(m, key)
    THEN MapOutcome(m, "HashMapKeyNotFound")
    ELSE LET entry_index == hashFunction(m, key)
             tree_it == Find(m.entries[entry_index], key)
             o == Delete(m.entries[entry_index], key)
             m1 == [m EXCEPT !.cells = Free(m.cells,
                                 Deref(m.entries[entry_index],
                                       tree_it.current).data),
                             !.deletes = @ + 1,
                             !.entries[entry_index] = o.t]
         IN  IF o.signal # "none" THEN MapOutcome(m1, o.signal)
             ELSE loadFactorCheckAndResize(m1)

\* Delete without the load-factor check: a faulty variant that
\* C18_MapDeleteRemovesOne must reject.
HashMap_Delete_NoCheck(m, key) ==
    IF ~Contains(m, key)
    THEN MapOutcome(m, "HashMapKeyNotFound")
    ELSE LET entry_index == hashFunction(m, key)
             tree_it == Find(m.entries[entry_index], key)
             o == Delete(m.entries[entry_index], key)
             m1 == [m EXCEPT !.cells = Free(m.cells,
                                 Deref(m.entries[entry_index],
                                       tree_it.current).data),
                             !.deletes = @ + 1,
                             !.entries[entry_index] = o.t]
         IN  IF o.signal # "none" THEN MapOutcome(m1, o.signal)
             ELSE MapOutcome([m1 EXCEPT !._count = @ - 1], "none")

\* Delete without delete *tree_it: a faulty variant that
\* C19_PayloadsOwnedOnce must reject.
HashMap_Delete_LeaksPayload(m, key) ==
    IF ~Contains(m, key)
    THEN MapOutcome(m, "HashMapKeyNotFound")
    ELSE LET entry_index == hashFunction(m, key)
             o == Delete(m.entries[entry_index], key)
             m1 == [m EXCEPT !.entries[entry_index] = o.t]
         IN  IF o.signal # "none" THEN MapOutcome(m1, o.signal)
             ELSE loadFactorCheckAndResize([m1 EXCEPT !._count = @ - 1])

\* Delete from the bucket's Delete on, o being what that returned or threw
\* and cell the V that delete *tree_it deleted before it.
HashMap_DeleteStored(m, entry_index, cell, o) ==
    LET m1 == [m EXCEPT !.cells = Free(m.cells, cell),
                        !.deletes = @ + 1,
                        !.entries[entry_index] = o.t]
    IN  IF o.signal # "none" THEN MapOutcome(m1, o.signal)
        ELSE loadFactorCheckAndResize([m1 EXCEPT !._count = @ - 1])

HashMap_Delete(m, key) ==
    IF ~Contains(m, key)
    THEN MapOutcome(m, "HashMapKeyNotFound")
    ELSE LET entry_index == hashFunction(m, key)
             tree_it == Find(m.entries[entry_index], key)
         IN  HashMap_DeleteStored(m, entry_index,
                                  Deref(m.entries[entry_index], tree_it.current).data,
                                  Delete(m.entries[entry_index], key))

\* The V that Find returns a reference to (Dangling: the cell was deleted).
HashMap_Find(m, key) ==
    IF ~Contains(m, key)
    THEN [signal |-> "HashMapKeyNotFound", value |-> Blank]
    ELSE LET entry_index == hashFunction(m, key)
             tree_it == Find(m.entries[entry_index], key)
             cell == Deref(m.entries[entry_index], tree_it.current).data
         IN  [signal |-> "none",
              value |-> IF cell \in DOMAIN m.cells THEN m.cells[cell]
                        ELSE Dangling]

HashMap_Empty(m) == EMPTY_TABLE = m._count

HashMap_getSize(m) == m._count

\* The payload addresses the buckets hold, bucket by bucket and in key
\* order within a bucket.
RECURSIVE BucketCells(_, _)
BucketCells(m, i) ==
    IF ~(i < m._size) THEN <<>>
    ELSE extractTreeDataInOrderAux(m.entries[i].nodes, m.entries[i].root)
         \o BucketCells(m, i + 1)

\* A sequence with every repetition of an element removed.
RECURSIVE Distinct(_)
Distinct(s) ==
    IF s = <<>> THEN <<>>
    ELSE LET front == Distinct(SubSeq(s, 1, Len(s) - 1))
         IN  IF \E i \in 1..Len(front) : front[i] = s[Len(s)]
             THEN front ELSE Append(front, s[Len(s)])

\* The map with every bucket's nodes renumbered (Canon) and the payload
\* addresses renumbered in the order of BucketCells, then any other
\* allocated payload in address order.
CanonMap(m) ==
    LET held == Distinct(BucketCells(m, 0))
        order == held \o Ascending(DOMAIN m.cells
                                   \ {held[i] : i \in 1..Len(held)})
        ren(c) == CHOOSE i \in 1..Len(order) : order[i] = c
        bucket(t) == [Canon(t) EXCEPT !.nodes = [n \in DOMAIN @ |->
                                          [@[n] EXCEPT !.data = ren(@)]]]
    IN  [m EXCEPT !.entries = [i \in DOMAIN m.entries |-> bucket(m.entries[i])],
                  !.cells = [a \in {ren(c) : c \in DOMAIN m.cells} |->
                                m.cells[order[a]]]]

\* ---------------------------------------------------------- state machine
\* The tree object in the current state.
This == Tree(nodes, root, minimal, size)

\* The reference map: a set of <<key, value>> pairs, one per key.
RefHas(m, k) == \E p \in m : p[1] = k
RefInsert(m, k, d) == IF RefHas(m, k) THEN m ELSE m \cup {<<k, d>>}
RefDelete(m, k) == {p \in m : p[1] # k}

\* The last call: its name and the branch of the code it took.
Call(op, case) == [op |-> op, case |-> case]

Init ==
    /\ nodes = AVLTree.nodes
    /\ root = AVLTree.root
    /\ minimal = AVLTree.minimal
    /\ size = AVLTree.size
    /\ signal = "none"
    /\ last = Call("AVLTree", "-")
    /\ ref = {}
    /\ entries = HashMap.entries
    /\ _size = HashMap._size
    /\ _count = HashMap._count
    /\ cells = HashMap.cells
    /\ news = HashMap.news
    /\ deletes = HashMap.deletes
    /\ handle = NoIterator
    /\ journal = <<>>

Commit(o) ==
    \E c \in {Canon(o.t)} :
    /\ nodes' = c.nodes
    /\ root' = c.root
    /\ minimal' = c.minimal
    /\ size' = c.size
    /\ signal' = o.signal
    /\ UNCHANGED mapvars
    /\ UNCHANGED handle
    /\ UNCHANGED journal

\* Which branch of Insert a call takes.
InsertCase(t, k) ==
    IF Empty(t) THEN "first"
    ELSE IF Find(t, k).signal = "KeyNotFound" THEN "new" ELSE "duplicate"

\* Which branch of recursiveDelete removes the key.
DeleteCase(t, k) ==
    LET n == Find(t, k).current IN
    IF n = NULL THEN "absent"
    ELSE IF isLeaf(t.nodes, n) THEN "leaf"
    ELSE IF isFull(t.nodes, n) THEN "two-children"
    ELSE "one-child"

\* Which branch of generateInOrder a call takes ("zero-null": a zero count
\* together with a null buffer).
GenerateCase(t, dnull, knull, count) ==
    IF count < 0 THEN "negative"
    ELSE IF count = 0 THEN (IF dnull \/ knull THEN "zero-null" ELSE "zero")
    ELSE IF dnull \/ knull THEN "null"
    ELSE IF t.size # count THEN "rebuild" ELSE "refill"

InsertStep(k, d) ==
    /\ Commit(Insert(This, k, d))
    /\ last' = Call("Insert", InsertCase(This, k))
    /\ ref' = RefInsert(ref, k, d)

DeleteStep(k) ==
    /\ Commit(Delete(This, k))
    /\ last' = Call("Delete", DeleteCase(This, k))
    /\ ref' = RefDelete(ref, k)

\* The sorted arrays a caller passes for the key set S: the keys of S in
\* ascending order, and the values v, 3 - v, v, ... in that order.
KeysOf(S) == Ascending(S)
DataOf(S, v) == [i \in 1..Cardinality(S) |-> IF i % 2 = 1 THEN v ELSE 3 - v]
PairsOf(S, v) == {<<KeysOf(S)[i], DataOf(S, v)[i]>> : i \in 1..Cardinality(S)}

GenerateStep(S, v, dnull, knull, count) ==
    LET o == generateInOrder(This, Buffer(dnull, DataOf(S, v)),
                             Buffer(knull, KeysOf(S)), count)
    IN  /\ Commit(o)
        /\ last' = Call("generateInOrder",
                        GenerateCase(This, dnull, knull, count))
        /\ ref' = IF o.signal = "none" /\ count > 0 THEN PairsOf(S, v) ELSE ref

InsertOp == \E k \in Keys, d \in Values : InsertStep(k, d)

DeleteOp == \E k \in Keys : DeleteStep(k)

\* The key sets bulk rebuilds are called with: 1..n for every n, and the odd
\* keys (an array with gaps).
GenKeySets == {1..n : n \in 0..MaxKey} \cup {{k \in Keys : k % 2 = 1}}

\* Well-formed calls pass arrays of exactly count elements; the other calls
\* pass a negative count, a zero count or a null buffer with two-element
\* arrays.
GenerateOp ==
    \/ \E S \in GenKeySets, v \in Values :
          GenerateStep(S, v, FALSE, FALSE, Cardinality(S))
    \/ \E dnull \in BOOLEAN, knull \in BOOLEAN, count \in {-1, 0, 2} :
          GenerateStep(1..2, 1, dnull, knull, count)

Next == InsertOp \/ DeleteOp \/ GenerateOp

Spec == Init /\ [][Next]_vars

\* Insert and Delete alone, from the empty tree.
NextInsertDelete == InsertOp \/ DeleteOp

SpecInsertDelete == Init /\ [][NextInsertDelete]_vars

\* ------------------------------------------------- HashMap state machine
\* The keys in use: 0, -5, 5, -10, 10, ... (MaxMapKeys of them), so that
\* buckets hold several keys at capacity 10 and at capacity 20 and negative
\* keys are hashed.
MapKeyAt(i) == IF i % 2 = 1 THEN 5 * (i \div 2) ELSE -5 * (i \div 2)

MapKeys == {MapKeyAt(i) : i \in 1..MaxMapKeys}

\* The map object in the current state, with the counts of the free store
\* reset for the next call.
ThisMap == Map(entries, _size, _count, cells, 0, 0)

InitHashMap ==
    /\ nodes = AVLTree.nodes
    /\ root = AVLTree.root
    /\ minimal = AVLTree.minimal
    /\ size = AVLTree.size
    /\ signal = "none"
    /\ last = Call("HashMap", "-")
    /\ ref = {}
    /\ entries = HashMap.entries
    /\ _size = HashMap._size
    /\ _count = HashMap._count
    /\ cells = HashMap.cells
    /\ news = HashMap.news
    /\ deletes = HashMap.deletes
    /\ handle = NoIterator
    /\ journal = <<>>

MapCommit(o) ==
    \E c \in {CanonMap(o.m)} :
    /\ entries' = c.entries
    /\ _size' = c._size
    /\ _count' = c._count
    /\ cells' = c.cells
    /\ news' = c.news
    /\ deletes' = c.deletes
    /\ signal' = o.signal
    /\ UNCHANGED treevars
    /\ UNCHANGED handle
    /\ UNCHANGED journal

\* Which branch of loadFactorCheckAndResize and of Resize a map of the given
\* count and capacity takes ("floor": a shrink asked for at the initial size).
ResizeCase(count, capacity) ==
    IF THRESHOLD_INCREASE.num * capacity <= THRESHOLD_INCREASE.den * count
    THEN "grow"
    ELSE IF THRESHOLD_DECREASE.num * capacity >= THRESHOLD_DECREASE.den * count
    THEN (IF capacity = HashMap_INITIAL_SIZE THEN "floor" ELSE "shrink")
    ELSE "between"

MapInsertCase(m, k) ==
    IF Contains(m, k) THEN "duplicate" ELSE ResizeCase(m._count + 1, m._size)

MapDeleteCase(m, k) ==
    IF ~Contains(m, k) THEN "absent" ELSE ResizeCase(m._count - 1, m._size)

MapInsertStep(k, v) ==
    /\ MapCommit(HashMap_Insert(ThisMap, k, v))
    /\ last' = Call("HashMap::Insert", MapInsertCase(ThisMap, k))
    /\ ref' = RefInsert(ref, k, v)

MapDeleteStep(k) ==
    /\ MapCommit(HashMap_Delete(ThisMap, k))
    /\ last' = Call("HashMap::Delete", MapDeleteCase(ThisMap, k))
    /\ ref' = RefDelete(ref, k)

\* V is copied and never inspected.  A caller stores the key itself as the
\* payload of a key, so that the payloads of two keys differ, and either 0 or
\* 1 under key 0, so that the payload of one key differs from call to call.
MapValuesOf(k) == IF k = 0 THEN {0, 1} ELSE {k}

MapInsertOp == \E k \in MapKeys : \E v \in MapValuesOf(k) : MapInsertStep(k, v)

MapDeleteOp == \E k \in MapKeys : MapDeleteStep(k)

NextHashMap == MapInsertOp \/ MapDeleteOp

SpecHashMap == InitHashMap /\ [][NextHashMap]_vars

\* Insert alone, on a map that starts empty at its initial capacity.
NextMapInserts == MapInsertOp

SpecMapInserts == InitHashMap /\ [][NextMapInserts]_vars

\* ------------------------------------------------ iterator state machine
\* A caller builds the tree by Insert, obtains an iterator from Find and
\* moves and dereferences it.  An Insert ends the use of the iterator the
\* caller held (it obtains a new one from Find).
IterInsertStep(k, d) ==
    /\ \E c \in {Canon(Insert(This, k, d).t)} :
          /\ nodes' = c.nodes
          /\ root' = c.root
          /\ minimal' = c.minimal
          /\ size' = c.size
    /\ signal' = Insert(This, k, d).signal
    /\ last' = Call("Insert", InsertCase(This, k))
    /\ ref' = RefInsert(ref, k, d)
    /\ handle' = NoIterator
    /\ UNCHANGED mapvars
    /\ UNCHANGED journal

FindStep(k) ==
    /\ signal' = Find(This, k).signal
    /\ handle' = IF Find(This, k).signal = "none"
             THEN iterator(Find(This, k).current, this) ELSE handle
    /\ last' = Call("Find", IF Find(This, k).signal = "none" THEN "found"
                            ELSE "absent")
    /\ UNCHANGED <<treevars, mapvars, ref, journal>>

\* Which branch a move to a son takes, given the son it moves to.
MoveCase(i, son) ==
    IF i.current = NULL THEN "null"
    ELSE IF son = NULL THEN "no-child" ELSE "child"

MoveLeftStep ==
    /\ handle.tree # NULL
    /\ handle' = MoveLeft(nodes, handle).it
    /\ signal' = MoveLeft(nodes, handle).signal
    /\ last' = Call("MoveLeft",
                    MoveCase(handle, IF handle.current = NULL THEN NULL
                                 ELSE nodes[handle.current].left))
    /\ UNCHANGED <<treevars, mapvars, ref, journal>>

MoveRightStep ==
    /\ handle.tree # NULL
    /\ handle' = MoveRight(nodes, handle).it
    /\ signal' = MoveRight(nodes, handle).signal
    /\ last' = Call("MoveRight",
                    MoveCase(handle, IF handle.current = NULL THEN NULL
                                 ELSE nodes[handle.current].right))
    /\ UNCHANGED <<treevars, mapvars, ref, journal>>

moveToParentStep ==
    /\ handle.tree # NULL
    /\ handle' = moveToParent(nodes, handle).it
    /\ signal' = moveToParent(nodes, handle).signal
    /\ last' = Call("moveToParent",
                    IF handle.current = NULL THEN "null"
                    ELSE IF nodes[handle.current].parent = NULL THEN "root"
                    ELSE "parent")
    /\ UNCHANGED <<treevars, mapvars, ref, journal>>

DerefStep ==
    /\ handle.tree # NULL
    /\ signal' = Deref(This, handle.current).signal
    /\ last' = Call("operator*", IF handle.current = NULL THEN "null" ELSE "node")
    /\ UNCHANGED <<treevars, mapvars, ref, handle, journal>>

IterInsertOp == \E k \in Keys, d \in Values : IterInsertStep(k, d)

FindOp == \E k \in Keys : FindStep(k)

NextIterator ==
    IterInsertOp \/ FindOp \/ MoveLeftStep \/ MoveRightStep
    \/ moveToParentStep \/ DerefStep

SpecIterator == Init /\ [][NextIterator]_vars

\* ------------------------------------------------ scenario state machine
\* A caller makes up to MaxCalls Insert calls with the keys of the rotation
\* scenarios, in any order, on a tree that starts empty.
ScenarioKeys == {10, 20, 30}

ScenarioInsertStep(k, d) ==
    /\ Len(journal) < MaxCalls
    /\ \E o \in {Insert(This, k, d)} :
          /\ \E c \in {Canon(o.t)} :
                /\ nodes' = c.nodes
                /\ root' = c.root
                /\ minimal' = c.minimal
                /\ size' = c.size
          /\ signal' = o.signal
          /\ journal' = Append(journal, [key |-> k, rotations |-> o.t.rotations])
    /\ last' = Call("Insert", InsertCase(This, k))
    /\ ref' = RefInsert(ref, k, d)
    /\ UNCHANGED mapvars
    /\ UNCHANGED handle

ScenarioInsertOp == \E k \in ScenarioKeys, d \in Values : ScenarioInsertStep(k, d)

NextScenario == ScenarioInsertOp

SpecScenario == Init /\ [][NextScenario]_vars

\* ------------------------------------------------- what the claims speak of
\* The nodes reachable from the root.
Reachable == {PreOrder(nodes, root)[i] : i \in 1..Len(PreOrder(nodes, root))}

\* The in-order traversal of the tree: its keys, and its (key, value) pairs.
InOrderKeys == inorderOutputAux(nodes, root)
InOrderData == extractTreeDataInOrderAux(nodes, root)
InOrderPairs == {<<InOrderKeys[i], InOrderData[i]>> : i \in 1..Len(InOrderKeys)}
KeySet == {InOrderKeys[i] : i \in 1..Len(InOrderKeys)}

\* The node the in-order traversal visits first.
RECURSIVE FirstInOrder(_, _)
FirstInOrder(h, n) ==
    IF n = NULL THEN NULL
    ELSE IF FirstInOrder(h, h[n].left) # NULL THEN FirstInOrder(h, h[n].left)
    ELSE n

\* The height of the subtree at n, counted on the links.
RECURSIVE TrueHeight(_, _)
TrueHeight(h, n) ==
    IF n = NULL THEN 0
    ELSE 1 + Max(TrueHeight(h, h[n].left), TrueHeight(h, h[n].right))

\* ------------------------------------------- runs of Delete on a sound tree
\* The order, cached-height and balance invariants, and the agreement with
\* the reference map, on the tree as it stands.
Sound ==
    /\ \A i \in 1..(Len(InOrderKeys) - 1) : InOrderKeys[i] < InOrderKeys[i + 1]
    /\ InOrderPairs = ref
    /\ size = Len(InOrderKeys)
    /\ \A n \in Reachable :
          \E l \in {TrueHeight(nodes, nodes[n].left)} :
          \E r \in {TrueHeight(nodes, nodes[n].right)} :
              /\ nodes[n].left_height = l
              /\ nodes[n].right_height = r
              /\ Abs(l - r) <= 1

\* The fewest keys whose tree has height 5: a tree deep enough for one
\* Delete to rebalance at two levels.
DeepBuilt == pow(POWER_TWO, 4)

\* A caller builds a tree and then, once the tree is sound, makes Delete
\* calls only.  It builds either by Insert of the keys 1, 2, ... in
\* ascending order, up to DeepBuilt of them, or by one bulk rebuild with the
\* keys 1..n.
BuildAscendingOp ==
    /\ last.op \in {"AVLTree", "Insert"}
    /\ size < DeepBuilt
    /\ InsertStep(size + 1, 1)

BuildGenerateOp ==
    /\ last.op = "AVLTree"
    /\ \E n \in 1..MaxBuilt : GenerateStep(1..n, 1, FALSE, FALSE, n)

\* Every key may be deleted from a tree of MaxBuilt keys or fewer, and at
\* most MaxDeepDeletes keys from the tree of DeepBuilt keys.
SoundDeleteOp ==
    /\ last.op = "Delete" \/ Sound
    /\ size <= MaxBuilt \/ size > DeepBuilt - MaxDeepDeletes
    /\ \E k \in 1..DeepBuilt : DeleteStep(k)

NextDeletes == BuildAscendingOp \/ BuildGenerateOp \/ SoundDeleteOp

SpecDeletes == Init /\ [][NextDeletes]_vars

\* C1: after every Insert or Delete from the empty tree, successful or not,
\* the in-order traversal from root yields strictly ascending keys and
\* getSize() is the number of nodes in it.
C1_OrderedAndCounted ==
    /\ \A i \in 1..(Len(InOrderKeys) - 1) : InOrderKeys[i] < InOrderKeys[i + 1]
    /\ getSize(This) = Len(InOrderKeys)

\* A Delete of a two-child node has just left a tree of three nodes or more.
C1_Witness ==
    /\ last = Call("Delete", "two-children")
    /\ Len(InOrderKeys) >= 3

\* C2: after every Insert or Delete, every node's cached _left_height and
\* _right_height are the true heights of its left and right subtrees.
C2_CachedHeightsTrue ==
    \A n \in Reachable :
        /\ nodes[n].left_height = TrueHeight(nodes, nodes[n].left)
        /\ nodes[n].right_height = TrueHeight(nodes, nodes[n].right)

\* C3: after every Insert, Delete or generateInOrder, the true heights of
\* the two subtrees of every node differ by at most 1.
C3_HeightBalanced ==
    \A n \in Reachable :
        Abs(TrueHeight(nodes, nodes[n].left)
            - TrueHeight(nodes, nodes[n].right)) <= 1

\* C4: after every Insert, Delete or generateInOrder, minimal is the leftmost
\* node reachable from root, the node with the smallest key; it is null
\* exactly when the tree is empty, and getMinimal throws KeyNotFound exactly
\* then.
C4_MinimalIsLeftmost ==
    /\ minimal = FirstInOrder(nodes, root)
    /\ (minimal = NULL) <=> (Reachable = {})
    /\ minimal # NULL => \A k \in KeySet : nodes[minimal].key <= k
    /\ (getMinimal(This).signal = "KeyNotFound") <=> (Reachable = {})
    /\ Reachable # {} => getMinimal(This).current = FirstInOrder(nodes, root)

\* A Delete that spliced out a one-child node has left a tree whose leftmost
\* node is not the root.
C4_Witness ==
    /\ last = Call("Delete", "one-child")
    /\ signal = "none"
    /\ minimal # NULL
    /\ minimal # root

\* C5: run side by side with a reference map, Insert and Delete keep the
\* tree's (key, value) pairs equal to the reference's; Find(k) returns a
\* handle that dereferences to the reference value when k is present and
\* throws KeyNotFound otherwise.
C5_FindRefinesMap ==
    /\ InOrderPairs = ref
    /\ \A k \in Keys :
          LET it == Find(This, k) IN
          IF RefHas(ref, k)
          THEN /\ it.signal = "none"
               /\ Deref(This, it.current).signal = "none"
               /\ <<k, Deref(This, it.current).data>> \in ref
          ELSE it.signal = "KeyNotFound"

\* A two-child Delete (key and value swapped with the successor) has left
\* entries with different values.
C5_Witness ==
    /\ last = Call("Delete", "two-children")
    /\ \E p \in ref, q \in ref : p[2] # q[2]

\* C6: Insert of a key already present throws KeyAlreadyExists and leaves
\* nodes, links, cached heights, values, size and minimal as they were.
C6_DuplicateInsertRejected ==
    \A k \in KeySet, d \in Values :
        Insert(This, k, d) = Outcome(This, "KeyAlreadyExists")

\* A duplicate Insert has just been rejected on a tree of two nodes or more.
C6_Witness ==
    /\ last = Call("Insert", "duplicate")
    /\ signal = "KeyAlreadyExists"
    /\ size >= 2

\* C7: Delete of a key that is not in the tree (the empty tree included)
\* throws KeyNotFound and leaves the tree as it was.
C7_AbsentDeleteRejected ==
    \A k \in Keys \ KeySet :
        Delete(This, k) = Outcome(This, "KeyNotFound")

\* A Delete of an absent key has just been rejected on a non-empty tree.
C7_Witness ==
    /\ last = Call("Delete", "absent")
    /\ signal = "KeyNotFound"
    /\ size >= 2

\* The pairs the last bulk rebuild was given: ref records them when count
\* is positive, and a zero count gives none.
GivenPairs == IF last.case = "zero" THEN {} ELSE ref

\* The smallest h with 2^h - 1 >= n.
MinHeight(n) ==
    CHOOSE h \in 0..n :
        /\ pow(2, h) - 1 >= n
        /\ \A g \in 0..(h - 1) : pow(2, g) - 1 < n

\* C8: for every N >= 0, generateInOrder with N sorted pairs, on a tree in
\* any prior state, leaves a tree whose in-order traversal is exactly those
\* pairs and whose getSize() is N.
C8_RebuildYieldsGivenPairs ==
    (last.op = "generateInOrder" /\ last.case \in {"zero", "rebuild", "refill"})
    => /\ InOrderPairs = GivenPairs
       /\ \A i \in 1..(Len(InOrderKeys) - 1) : InOrderKeys[i] < InOrderKeys[i + 1]
       /\ getSize(This) = Cardinality(GivenPairs)

\* C9: after generateInOrder with N >= 1 pairs the height of the tree is
\* the smallest h with 2^h - 1 >= N, whatever the tree held before.
C9_RebuildHeightMinimal ==
    (last.op = "generateInOrder" /\ last.case \in {"rebuild", "refill"})
    => TrueHeight(nodes, root) = MinHeight(Cardinality(GivenPairs))

\* The exceptions that report a bad argument.
ArgumentErrors == {"InvalidArg", "NullArg"}

RECURSIVE BucketEntries(_, _)
BucketEntries(m, i) ==
    IF ~(i < m._size) THEN <<>>
    ELSE LET t == m.entries[i]
             ks == extractTreeKeysInOrderAux(t.nodes, t.root)
             ds == extractTreeDataInOrderAux(t.nodes, t.root)
         IN  [j \in 1..Len(ks) |-> <<i, ks[j], ds[j]>>] \o BucketEntries(m, i + 1)

EntriesOf(m) == BucketEntries(m, 0)

\* The (key, value) pairs of the map m (value Dangling: the payload of the
\* entry was deleted).
MapPairsOf(m) ==
    LET es == EntriesOf(m) IN
    {<<es[i][2],
       IF es[i][3] \in DOMAIN m.cells THEN m.cells[es[i][3]] ELSE Dangling>> :
        i \in 1..Len(es)}

\* The value the reference map holds for a key it has.
RefValue(m, k) == (CHOOSE p \in m : p[1] = k)[2]

\* The keys queries are made with: the keys in use, and for each of them a
\* key that is never inserted and hashes to the same bucket at capacity 10
\* and at capacity 20.
MapProbes == MapKeys \cup {k + 100 : k \in MapKeys}

\* C11: run side by side with a reference map, HashMap Insert and Delete
\* (growth and shrink included) keep getSize() equal to the number of live
\* keys, Empty() true exactly when there are none, Contains(k) true exactly
\* for the live keys, and Find(k) returning the value last inserted for a
\* live key and signalling KeyNotFound for any other.
C11_MapRefinesReference ==
    /\ HashMap_getSize(ThisMap) = Cardinality(ref)
    /\ HashMap_Empty(ThisMap) <=> (ref = {})
    /\ \A k \in MapProbes :
          /\ Contains(ThisMap, k) <=> RefHas(ref, k)
          /\ HashMap_Find(ThisMap, k) =
                IF RefHas(ref, k)
                THEN [signal |-> "none", value |-> RefValue(ref, k)]
                ELSE [signal |-> "HashMapKeyNotFound", value |-> Blank]

\* A Delete has just shrunk the map (which had grown before), and key 0 is
\* live with the second of its payloads.
C11_Witness ==
    /\ last = Call("HashMap::Delete", "shrink")
    /\ <<0, 1>> \in ref
    /\ _size = HashMap_INITIAL_SIZE

\* C12: Resize, growing or shrinking, leaves the (key, value) pairs and the
\* live count as they were: applied to the map as it stands it keeps every
\* pair with its value and adds, loses or duplicates none, and the resize
\* that an Insert or Delete has just made left the pairs of the reference.
C12_ResizeKeepsPairs ==
    /\ \A increase \in BOOLEAN :
          LET r == Resize(ThisMap, increase) IN
          /\ r.signal = "none"
          /\ MapPairsOf(r.m) = MapPairsOf(ThisMap)
          /\ Len(EntriesOf(r.m)) = Len(EntriesOf(ThisMap))
          /\ r.m._count = _count
    /\ last.case \in {"grow", "shrink"}
       => /\ MapPairsOf(ThisMap) = ref
          /\ Len(EntriesOf(ThisMap)) = Cardinality(ref)
          /\ _count = Cardinality(ref)

\* An Insert has just grown the map: eight entries, those of two buckets,
\* were moved into the buckets of capacity 20.
C12_Witness ==
    /\ last = Call("HashMap::Insert", "grow")
    /\ _size = HashMap_INITIAL_SIZE * INCREASE_FACTOR
    /\ \E i \in 0..(_size - 1) : entries[i].size >= 2

\* C13: immediately after an Insert or Delete that changes the capacity, the
\* load factor count / capacity lies strictly between 0.25 and 0.75.
C13_LoadFactorAfterResize ==
    [][_size' # _size
       => /\ 1 * _size' < 4 * _count'
          /\ 4 * _count' < 3 * _size']_vars

\* A Delete has just halved the capacity to 10 with five entries left.
C13_Witness ==
    /\ last = Call("HashMap::Delete", "shrink")
    /\ _size = HashMap_INITIAL_SIZE
    /\ _count = 5

\* C14: the capacity is never below the initial 10; a shrink asked for at
\* capacity 10 changes nothing.
C14_CapacityFloor ==
    /\ _size >= 10
    /\ _size = 10 => Resize(ThisMap, FALSE) = MapOutcome(ThisMap, "none")

\* A Delete has just emptied a map of capacity 10 (the shrink it asked for
\* was refused).
C14_Witness ==
    /\ last = Call("HashMap::Delete", "floor")
    /\ signal = "none"
    /\ _size = 10
    /\ _count = 0

\* The keys among the entries of the map m.
MapKeySetOf(m) == LET es == EntriesOf(m) IN {es[i][2] : i \in 1..Len(es)}

\* C15: after every Insert or Delete, resizing or not, every live key is in
\* exactly one bucket tree, the one with index hash(key) for the current
\* capacity, and no key occurs twice in the bucket array.
C15_OneBucketPerKey ==
    LET es == EntriesOf(ThisMap) IN
    /\ \A i \in 1..Len(es) : es[i][1] = hashFunction(ThisMap, es[i][2])
    /\ \A i \in 1..Len(es), j \in 1..Len(es) : es[i][2] = es[j][2] => i = j
    /\ MapKeySetOf(ThisMap) = {p[1] : p \in ref}

\* An Insert has just grown the map, and negative keys sit in buckets that
\* capacity 10 does not have.
C15_Witness ==
    /\ last = Call("HashMap::Insert", "grow")
    /\ LET es == EntriesOf(ThisMap) IN
       \E i \in 1..Len(es) : es[i][2] < 0 /\ es[i][1] >= HashMap_INITIAL_SIZE

\* The keys hashFunction is tried on: -MaxHashKey..MaxHashKey.
HashKeys == (-MaxHashKey)..MaxHashKey

\* The capacities hashFunction is tried with: the current one, and 10, 20,
\* 40 and 80.
HashCapacities == {_size} \cup {HashMap_INITIAL_SIZE * pow(INCREASE_FACTOR, e) : e \in 0..3}

\* C16: for every key, positive, zero or negative, and every capacity,
\* hashFunction(key) is an index r with 0 <= r < capacity that is congruent
\* to key modulo capacity.
C16_HashInRange ==
    \A key \in HashKeys, capacity \in HashCapacities :
        LET r == hashFunction([ThisMap EXCEPT !._size = capacity], key) IN
        /\ 0 <= r
        /\ r < capacity
        /\ \E q \in (-MaxHashKey)..MaxHashKey : key = q * capacity + r

\* Key -5, whose remainder by 20 is negative, is stored in bucket 15 of a map
\* of capacity 20.
C16_Witness ==
    /\ _size = 20
    /\ Rem(-5, _size) < 0
    /\ Find(entries[15], -5).signal = "none"

\* C17: Insert with a key that is in the map signals KeyAlreadyExists and
\* leaves the map as it was: no payload allocated, the stored values, the
\* count, the capacity and the buckets unchanged, no resize.
C17_DuplicateMapInsertRejected ==
    \A k \in MapKeySetOf(ThisMap) : \A v \in {0, 1, k} :
        HashMap_Insert(ThisMap, k, v)
            = MapOutcome(ThisMap, "HashMapKeyAlreadyExists")

\* An Insert of key 0 with payload 1 has just been rejected by a map of
\* capacity 20 that holds payload 0 for it.
C17_Witness ==
    /\ last = Call("HashMap::Insert", "duplicate")
    /\ signal = "HashMapKeyAlreadyExists"
    /\ _size = 20
    /\ <<0, 0>> \in ref

\* The capacity the load-factor check leaves for a map of the given count
\* and capacity.
CheckedCapacity(count, capacity) ==
    IF 4 * count >= 3 * capacity THEN 2 * capacity
    ELSE IF 4 * count <= capacity /\ capacity > 10 THEN capacity \div 2
    ELSE capacity

\* C18: Delete with a key that is not in the map signals KeyNotFound and
\* leaves the map as it was; with a key that is in the map it removes that
\* key's entry and no other, decrements the count by one and then makes the
\* load-factor check.
C18_MapDeleteRemovesOne ==
    /\ \A k \in MapProbes \ MapKeySetOf(ThisMap) :
          HashMap_Delete(ThisMap, k) = MapOutcome(ThisMap, "HashMapKeyNotFound")
    /\ \A k \in MapKeySetOf(ThisMap) :
          LET o == HashMap_Delete(ThisMap, k) IN
          /\ o.signal = "none"
          /\ MapPairsOf(o.m) = {p \in MapPairsOf(ThisMap) : p[1] # k}
          /\ Len(EntriesOf(o.m)) = Len(EntriesOf(ThisMap)) - 1
          /\ o.m._count = _count - 1
          /\ o.m._size = CheckedCapacity(_count - 1, _size)

\* A Delete of an absent key has just been rejected by a map of capacity 20
\* with six entries: the Delete of any of the six shrinks it.
C18_Witness ==
    /\ last = Call("HashMap::Delete", "absent")
    /\ signal = "HashMapKeyNotFound"
    /\ _size = 20
    /\ _count = 6

\* The payload addresses the entries of the map m hold.
HeldCells(m) == LET es == EntriesOf(m) IN {es[i][3] : i \in 1..Len(es)}

\* The entries of the map m as (key, payload address) pairs.
Homes(m) == LET es == EntriesOf(m) IN {<<es[i][2], es[i][3]>> : i \in 1..Len(es)}

\* C19: the payload cells allocated and not freed are the cells the live
\* entries reference, each referenced by one entry; an Insert that succeeds
\* allocates one cell and frees none, a Delete that succeeds frees one (the
\* deleted key's) and allocates none, a rejected call does neither, and
\* Resize neither allocates nor frees a cell and leaves every key with the
\* cell it had.
C19_PayloadsOwnedOnce ==
    /\ DOMAIN cells = HeldCells(ThisMap)
    /\ Cardinality(HeldCells(ThisMap)) = Len(EntriesOf(ThisMap))
    /\ last.op = "HashMap::Insert"
       => <<news, deletes>> = IF last.case = "duplicate" THEN <<0, 0>> ELSE <<1, 0>>
    /\ last.op = "HashMap::Delete"
       => <<news, deletes>> = IF last.case = "absent" THEN <<0, 0>> ELSE <<0, 1>>
    /\ LET homes == Homes(ThisMap) IN
       \A h \in homes :
          DOMAIN HashMap_Delete(ThisMap, h[1]).m.cells = DOMAIN cells \ {h[2]}
    /\ \A increase \in BOOLEAN :
          LET r == Resize(ThisMap, increase) IN
          /\ r.m.cells = cells
          /\ <<r.m.news, r.m.deletes>> = <<0, 0>>
          /\ Homes(r.m) = Homes(ThisMap)

\* A Delete has just shrunk the map: one payload freed, none allocated, five
\* cells left.
C19_Witness ==
    /\ last = Call("HashMap::Delete", "shrink")
    /\ <<news, deletes>> = <<0, 1>>
    /\ Cardinality(DOMAIN cells) = 5

\* C20: a MoveLeft (MoveRight) on an iterator whose node has no left (right)
\* child throws IteratorReachedEnd at that move and does not leave an
\* iterator that references no node; a moveToParent on the root throws
\* IteratorReachedRoot and leaves the iterator on the root.
C20_MovePastChildSignals ==
    /\ (last.op \in {"MoveLeft", "MoveRight"} /\ last.case = "no-child")
       => /\ signal = "IteratorReachedEnd"
          /\ handle.current # NULL
    /\ last = Call("moveToParent", "root")
       => /\ signal = "IteratorReachedRoot"
          /\ handle.current = root

\* ------------------------------------------ what the scenario claims speak of
\* The keys the scenario has inserted, in call order.
JournalKeys == [i \in 1..Len(journal) |-> journal[i].key]

\* The rotations the scenario's calls made, in order.
RECURSIVE RotationsUpTo(_)
RotationsUpTo(i) ==
    IF i = 0 THEN <<>> ELSE RotationsUpTo(i - 1) \o journal[i].rotations

JournalRotations == RotationsUpTo(Len(journal))

\* Root 20 with the leaves 10 and 30, every balance factor 0.
Shape10_20_30 ==
    /\ size = 3
    /\ root # NULL
    /\ nodes[root].key = 20
    /\ nodes[root].parent = NULL
    /\ nodes[root].left # NULL
    /\ nodes[root].right # NULL
    /\ nodes[nodes[root].left].key = 10
    /\ nodes[nodes[root].right].key = 30
    /\ isLeaf(nodes, nodes[root].left)
    /\ isLeaf(nodes, nodes[root].right)
    /\ \A n \in {root, nodes[root].left, nodes[root].right} :
          getBalance(nodes, n) = 0

\* C21: inserting 10, 20, 30 in that order into an empty tree makes exactly
\* one rotation, an RR, and inserting 30, 10, 20 makes exactly one, an LR;
\* both end with root 20, left child 10, right child 30 and all three
\* balance factors 0.
C21_ThreeKeyRotations ==
    /\ JournalKeys = <<10, 20, 30>>
          => JournalRotations = <<"RR">> /\ Shape10_20_30
    /\ JournalKeys = <<30, 10, 20>>
          => JournalRotations = <<"LR">> /\ Shape10_20_30

\* The third Insert of the order 30, 10, 20 has returned after a rotation.
C21_Witness ==
    /\ JournalKeys = <<30, 10, 20>>
    /\ signal = "none"
    /\ journal[3].rotations # <<>>

\* The count at which a map of the initial capacity first has a load factor
\* of THRESHOLD_INCREASE or more (8 of 10).
GrowthCount ==
    CHOOSE c \in 0..HashMap_INITIAL_SIZE :
        /\ THRESHOLD_INCREASE.num * HashMap_INITIAL_SIZE <= THRESHOLD_INCREASE.den * c
        /\ \A b \in 0..(c - 1) :
              THRESHOLD_INCREASE.num * HashMap_INITIAL_SIZE > THRESHOLD_INCREASE.den * b

\* C22: a map at its initial capacity 10 keeps capacity 10 through its first
\* 7 inserts of distinct keys and has capacity 20 once the 8th has returned
\* (load factor 0.8 reached inside it); from then on Contains and Find
\* succeed for every inserted key, with the value it was inserted with.
C22_GrowsOnEighthInsert ==
    /\ GrowthCount = 8
    /\ _count = Cardinality(ref)
    /\ _count <= 7 => _size = 10
    /\ _count >= 8 =>
          /\ _size = 20
          /\ \A p \in ref :
                /\ Contains(ThisMap, p[1])
                /\ HashMap_Find(ThisMap, p[1]) = [signal |-> "none", value |-> p[2]]

\* The 8th insert of a distinct key has just returned, having grown the map.
C22_Witness ==
    /\ last = Call("HashMap::Insert", "grow")
    /\ signal = "none"
    /\ _count = 8
    /\ _size = 20

\* C23: after every Insert, Delete or generateInOrder the parent and child
\* links agree: the root's parent link is null, every other reachable node
\* has a parent with exactly one of its two child links pointing back to the
\* node, and every non-null child link of a reachable node leads to a node
\* whose parent link is that node.
C23_LinksConsistent ==
    /\ root # NULL => nodes[root].parent = NULL
    /\ \A n \in Reachable \ {root} :
          LET p == nodes[n].parent IN
          /\ p \in DOMAIN nodes
          /\ (nodes[p].left = n) # (nodes[p].right = n)
    /\ \A p \in Reachable :
          /\ nodes[p].left # NULL
                => nodes[p].left \in DOMAIN nodes /\ nodes[nodes[p].left].parent = p
          /\ nodes[p].right # NULL
                => nodes[p].right \in DOMAIN nodes /\ nodes[nodes[p].right].parent = p

\* A Delete has just spliced out the root of a two-node tree (a root with
\* one child), leaving that child as the root.
C23_Witness ==
    /\ last = Call("Delete", "one-child")
    /\ signal = "none"
    /\ size = 1
    /\ root # NULL

\* The nodes the insert walk for key k visits, from node n down.
RECURSIVE InsertPath(_, _, _)
InsertPath(h, n, k) ==
    IF n = NULL THEN {}
    ELSE {n} \cup (IF h[n].key < k THEN InsertPath(h, h[n].right, k)
                                   ELSE InsertPath(h, h[n].left, k))

\* C24: in the insert walk of a new key, at a node with both children, the
\* cached height of the side the key was routed into is refreshed from that
\* child on return: when the walk comes back to the node (before its
\* rebalancing check) the cached left height is the height of the left
\* child if the key went left, and the cached right height that of the right
\* child if it went right.
C24_TraversedSideRefreshed ==
    \A k \in Keys \ KeySet :
        \A current \in InsertPath(nodes, root, k) :
            isFull(nodes, current) =>
                LET to_insert == Alloc(nodes)
                    t1 == [This EXCEPT !.nodes = New(nodes, to_insert, Node(k, 1))]
                    w == recursiveInsertFull(t1, current, to_insert).nodes
                IN  IF k < nodes[current].key
                    THEN w[current].left_height = getHeight(w, w[current].left)
                    ELSE w[current].right_height = getHeight(w, w[current].right)

\* The rebalancing outcomes of every call a caller can make next.
NextRotations ==
    UNION ({ {Insert(This, k, d).t.rotations : d \in Values} : k \in Keys }
           \cup { {Delete(This, k).t.rotations} : k \in Keys })

\* C25: isBalanced() returns true after every Insert, Delete and
\* generateInOrder in any sequence (no node has cached left and right
\* heights differing by 2 or more), and every time the rebalancing check of
\* a call meets a node with cached balance of magnitude 2 it applies one of
\* the rotations LL, LR, RL, RR.
C25_AlwaysBalanced ==
    /\ isBalanced(This)
    /\ \A log \in NextRotations :
          \A i \in 1..Len(log) : log[i] \in {"LL", "LR", "RL", "RR"}

\* C26: from a tree in which the order, balance and cached-height
\* invariants hold, Delete calls alone preserve them: after each Delete the
\* keys are the previous keys less the deleted one (the reference map), in
\* ascending order, every cached height is the true height of the subtree,
\* and the heights of every node's two subtrees differ by at most 1.
C26_DeletesKeepSound ==
    last.op = "Delete" =>
        /\ InOrderPairs = ref
        /\ \A i \in 1..(Len(InOrderKeys) - 1) : InOrderKeys[i] < InOrderKeys[i + 1]
        /\ \A n \in Reachable :
              /\ nodes[n].left_height = TrueHeight(nodes, nodes[n].left)
              /\ nodes[n].right_height = TrueHeight(nodes, nodes[n].right)
              /\ Abs(TrueHeight(nodes, nodes[n].left)
                     - TrueHeight(nodes, nodes[n].right)) <= 1

\* A Delete has just returned on the deep tree, leaving a tree from which
\* the next Delete of some key rebalances at two levels (two rotations in
\* one call).
C26_Witness ==
    /\ last.op = "Delete"
    /\ last.case \in {"leaf", "one-child", "two-children"}
    /\ size > DeepBuilt - MaxDeepDeletes
    /\ \E k \in KeySet : Len(Delete(This, k).t.rotations) >= 2

\* The rebalancing outcomes of every well-formed bulk rebuild a caller can
\* make next.
NextRebuildRotations ==
    {generateInOrder(This, Buffer(FALSE, DataOf(S, v)), Buffer(FALSE, KeysOf(S)),
                     Cardinality(S)).t.rotations : S \in GenKeySets, v \in Values}

\* C27: when generateInOrder rebuilds the tree for N >= 1 pairs, the trimming
\* of the blank perfect tree of 2^h - 1 nodes removes leaves only and stops
\* after 2^h - 1 - N removals: exactly N nodes are left allocated, all of
\* them reachable from root (no node was cut off with a removed one), size is
\* N, every cached height is the true height of the subtree and every
\* balance factor has magnitude at most 1; and no bulk rebuild rotates.
C27_TrimKeepsTreeWhole ==
    /\ (last = Call("generateInOrder", "rebuild") /\ signal = "none") =>
          /\ Cardinality(ref) >= 1
          /\ Cardinality(DOMAIN nodes) = Cardinality(ref)
          /\ DOMAIN nodes = Reachable
          /\ Len(InOrderKeys) = Cardinality(ref)
          /\ size = Cardinality(ref)
          /\ \A n \in Reachable :
                /\ nodes[n].left_height = TrueHeight(nodes, nodes[n].left)
                /\ nodes[n].right_height = TrueHeight(nodes, nodes[n].right)
                /\ Abs(getBalance(nodes, n)) <= 1
    /\ \A log \in NextRebuildRotations : log = <<>>

\* A rebuild for 5 pairs has just returned: the blank tree of height 3 and 7
\* nodes was trimmed by 2.
C27_Witness ==
    /\ last = Call("generateInOrder", "rebuild")
    /\ signal = "none"
    /\ size = 5
    /\ TrueHeight(nodes, root) = 3

\* The load factor count / capacity lies strictly between 0.25 and 0.75.
InBand(count, capacity) == capacity < 4 * count /\ 4 * count < 3 * capacity

\* C28: after every completed HashMap Insert or Delete, whenever the
\* capacity is above the initial 10 the load factor lies strictly between
\* 0.25 and 0.75, and a load factor of 0.25 or less is seen at capacity 10
\* only.  The same holds one call on from any count and capacity (10, 20, 40,
\* 80) that can be observed: the count changes by one and the load-factor
\* check doubles, halves or keeps the capacity.
C28_SteadyLoadFactor ==
    /\ _size > 10 => InBand(_count, _size)
    /\ 4 * _count <= _size => _size = 10
    /\ \A capacity \in HashCapacities :
          \A count \in 0..capacity :
              ((capacity = 10 /\ 4 * count < 3 * capacity)
               \/ (capacity > 10 /\ InBand(count, capacity)))
              => \A after \in {count - 1, count + 1} \cap (0..(2 * capacity)) :
                    CheckedCapacity(after, capacity) > 10
                    => InBand(after, CheckedCapacity(after, capacity))

\* A Delete has just left six entries in a map of capacity 20: a load factor
\* of 0.3, the lowest seen above capacity 10.
C28_Witness ==
    /\ last = Call("HashMap::Delete", "between")
    /\ signal = "none"
    /\ _size = 20
    /\ _count = 6

====
